---- MODULE Spec2Model ----
(***************************************************************************)
(* Regular polygons with lazily computed, cached derived properties        *)
(* (polygons.py: class Polygon) and the restartable sequence of polygons   *)
(* of 3..m vertices (class Polygons and its PolygonIterator).              *)
(*                                                                         *)
(* Floats are modelled in fixed point: a real x is the integer x * Scale.  *)
(* math.sin(math.pi / n) and math.cos(math.pi / n) are tabulated.          *)
(* The ratio area / perimeter that max_efficiency_polygon compares is      *)
(* computed in exact IEEE-754 double precision (EffSpec).  Spec covers one *)
(* Polygon, SeqSpec the sequence and its iterators, CmpSpec the comparison *)
(* operators, RaceSpec the steps of several threads on one Polygon.        *)
(***************************************************************************)
EXTENDS Integers, Sequences, FiniteSets, TLC

\* ---------------------------------------------------------------- bounds
\* largest vertex count offered to Polygon(n, R) and to the setter
MaxN == 4
\* a derived property is read only while its counter would stay <= MaxCalls
MaxCalls == 2
\* largest m offered to Polygons(m, R)
MaxM == 4
\* number of iterators that may be open over the Polygons object
MaxIters == 2
\* the ends of iteration one iterator has signalled are counted up to MaxStops
MaxStops == 2
\* number of threads working on one Polygon
MaxThreads == 2

\* ------------------------------------------------------------- constants
\* the least vertex count the constructor and the setter accept
MinVertices == 3
\* PolygonIterator.__init__: the cursor starts at 3
FirstIndex == 3
\* fixed-point unit of the modelled floats
Scale == 1000

\* inputs: vertex counts offered (negative, 0, 2 and valid ones), circumradii
NVals == {-1, 0, 2} \cup (MinVertices .. MaxN)
RVals == {1, 2}
MVals == 1 .. MaxM
IterIds == 1 .. MaxIters
Threads == 1 .. MaxThreads

\* the five cached_property names, in the order _invalidate_cache lists them
CachedAttrs == <<"side_length", "apothem", "area", "perimeter", "interior_angle">>
Attrs == {CachedAttrs[i] : i \in 1 .. Len(CachedAttrs)}

\* --------------------------------------------------------- float helpers
\* math.sin(math.pi / n) * Scale, n = 3 .. 12
SinTable == <<866, 707, 588, 500, 434, 383, 342, 309, 282, 259>>
\* math.cos(math.pi / n) * Scale, n = 3 .. 12
CosTable == <<500, 707, 809, 866, 901, 924, 940, 951, 959, 966>>

SinPiOver(n) == SinTable[n - 2]
CosPiOver(n) == CosTable[n - 2]

\* product of two fixed-point numbers
FMul(a, b) == (a * b) \div Scale

\* ------------------------------------------------------------ the object
NoPoly == [kind |-> "None"]

\* Polygon.__init__ past the check: _n, _R, the five counters at 0, and an
\* instance __dict__ holding no cached_property value
NewPolygon(n, R) ==
    [kind |-> "Polygon", n |-> n, R |-> R,
     dict |-> <<>>,
     calls |-> [a \in Attrs |-> 0]]

\* attr in self.__dict__
Cached(s, a) == a \in DOMAIN s.dict

\* ------------------------------------------------------------- formulas
\* (self._n - 2) * 180 / self._n
InteriorAngleOf(n) == ((n - 2) * 180 * Scale) \div n
\* 2 * self._R * math.sin(math.pi / self._n)
SideLengthOf(n, R) == 2 * R * SinPiOver(n)
\* self._R * math.cos(math.pi / self._n)
ApothemOf(n, R) == R * CosPiOver(n)
\* self._n / 2 * self.side_length * self.apothem
AreaOf(n, sl, ap) == FMul(FMul((n * Scale) \div 2, sl), ap)
\* self._n * self.side_length
PerimeterOf(n, sl) == n * sl

\* functools.cached_property.__get__ after the wrapped function returned v:
\* the value is stored in the instance __dict__ under the attribute's name
Store(s, a, v) ==
    [s EXCEPT !.dict = [b \in (DOMAIN s.dict) \cup {a} |->
                            IF b = a THEN v ELSE s.dict[b]]]

\* self._<a>_calls += 1
Bump(s, a) == [s EXCEPT !.calls[a] = @ + 1]

\* A read yields the object after the read and the value returned.
Result(s, v) == [s |-> s, v |-> v]

\* cached_property lookup: a value in __dict__ is returned as it is,
\* otherwise the body runs and its result is stored
GetInteriorAngle(s) ==
    IF Cached(s, "interior_angle") THEN Result(s, s.dict["interior_angle"])
    ELSE LET s1 == Bump(s, "interior_angle")
             v  == InteriorAngleOf(s1.n)
         IN  Result(Store(s1, "interior_angle", v), v)

\* variant: the body runs on every access, as a plain property would
GetSideLengthAsProperty(s) ==
    LET s1 == Bump(s, "side_length")
        v  == SideLengthOf(s1.n, s1.R)
    IN  Result(Store(s1, "side_length", v), v)

GetSideLength(s) ==
    IF Cached(s, "side_length") THEN Result(s, s.dict["side_length"])
    ELSE LET s1 == Bump(s, "side_length")
             v  == SideLengthOf(s1.n, s1.R)
         IN  Result(Store(s1, "side_length", v), v)

\* variant: the apothem is derived from the side length, read as a property
GetApothemViaSide(s) ==
    IF Cached(s, "apothem") THEN Result(s, s.dict["apothem"])
    ELSE LET s1 == Bump(s, "apothem")
             sl == GetSideLength(s1)
             v  == ApothemOf(sl.s.n, sl.s.R)
         IN  Result(Store(sl.s, "apothem", v), v)

GetApothem(s) ==
    IF Cached(s, "apothem") THEN Result(s, s.dict["apothem"])
    ELSE LET s1 == Bump(s, "apothem")
             v  == ApothemOf(s1.n, s1.R)
         IN  Result(Store(s1, "apothem", v), v)

GetArea(s) ==
    IF Cached(s, "area") THEN Result(s, s.dict["area"])
    ELSE LET s1 == Bump(s, "area")
             sl == GetSideLength(s1)
             ap == GetApothem(sl.s)
             v  == AreaOf(ap.s.n, sl.v, ap.v)
         IN  Result(Store(ap.s, "area", v), v)

\* variant: perimeter computes the side length itself instead of reading the
\* cached property
GetPerimeterOwnSide(s) ==
    IF Cached(s, "perimeter") THEN Result(s, s.dict["perimeter"])
    ELSE LET s1 == Bump(s, "perimeter")
             sl == GetSideLengthAsProperty(s1)
             v  == PerimeterOf(sl.s.n, sl.v)
         IN  Result(Store(sl.s, "perimeter", v), v)

GetPerimeter(s) ==
    IF Cached(s, "perimeter") THEN Result(s, s.dict["perimeter"])
    ELSE LET s1 == Bump(s, "perimeter")
             sl == GetSideLength(s1)
             v  == PerimeterOf(sl.s.n, sl.v)
         IN  Result(Store(sl.s, "perimeter", v), v)

\* getattr(p, a) for the five derived properties
Get(s, a) ==
    CASE a = "interior_angle" -> GetInteriorAngle(s)
      [] a = "side_length"    -> GetSideLength(s)
      [] a = "apothem"        -> GetApothem(s)
      [] a = "area"           -> GetArea(s)
      [] a = "perimeter"      -> GetPerimeter(s)

\* ------------------------------------------------ double-precision floats
\* The ratio that max_efficiency_polygon compares is computed as the program
\* computes it, in IEEE-754 binary64 with round-to-nearest-even.  A positive
\* finite double is m * 2^e with 2^52 <= m < 2^53, written
\* [cls |-> "finite", m, e] where m lists the five base-2^13 digits of the
\* significand, least significant first; a result of 2^1024 or more is inf.
\* (No input used here gives a subnormal result.)
Inf == [cls |-> "inf", m |-> <<>>, e |-> 0]
NaN == [cls |-> "nan", m |-> <<>>, e |-> 0]
Zero == [cls |-> "zero", m |-> <<>>, e |-> 0]

\* natural numbers of any size: sequences of base-2^13 digits
LimbBits == 13
Base == 2 ^ LimbBits
Limb(N, i) == IF i \in 1 .. Len(N) THEN N[i] ELSE 0
BitAt(N, i) ==
    (Limb(N, ((i - 1) \div LimbBits) + 1) \div (2 ^ ((i - 1) % LimbBits))) % 2

\* number of bits of N (0 for N = 0)
BitLength(N) ==
    IF \A i \in 1 .. Len(N) : N[i] = 0 THEN 0
    ELSE LET t == CHOOSE i \in 1 .. Len(N) :
                     N[i] # 0 /\ \A j \in i + 1 .. Len(N) : N[j] = 0
         IN  ((t - 1) * LimbBits)
             + (CHOOSE k \in 1 .. LimbBits : (N[t] \div (2 ^ (k - 1))) = 1)

\* N \div 2^d and N * 2^d, as w digits
ShiftRight(N, d, w) ==
    LET s == d \div LimbBits
        r == d % LimbBits
    IN  [j \in 1 .. w |->
            (Limb(N, j + s) \div (2 ^ r))
            + ((Limb(N, j + s + 1) % (2 ^ r)) * (2 ^ (LimbBits - r)))]
ShiftLeft(N, d, w) ==
    LET s == d \div LimbBits
        r == d % LimbBits
    IN  [j \in 1 .. w |->
            ((Limb(N, j - s) % (2 ^ (LimbBits - r))) * (2 ^ r))
            + (Limb(N, j - s - 1) \div (2 ^ (LimbBits - r)))]

\* digits that may exceed the base, brought back below it
RECURSIVE CarryFrom(_, _, _, _)
CarryFrom(cols, i, carry, acc) ==
    IF i > Len(cols) THEN (IF carry = 0 THEN acc ELSE Append(acc, carry))
    ELSE CarryFrom(cols, i + 1, ((cols[i] + carry) \div Base),
                   Append(acc, (cols[i] + carry) % Base))
Carry(cols) == CarryFrom(cols, 1, 0, <<>>)

\* a >= b
NatGeq(a, b) ==
    LET w == IF Len(a) > Len(b) THEN Len(a) ELSE Len(b)
        D == {i \in 1 .. w : Limb(a, i) # Limb(b, i)}
    IN  D = {} \/ \E i \in D : /\ \A j \in D : j <= i
                               /\ Limb(a, i) > Limb(b, i)

\* a - b for a >= b, as Len(a) digits
RECURSIVE SubFrom(_, _, _, _, _)
SubFrom(a, b, i, borrow, acc) ==
    IF i > Len(a) THEN acc
    ELSE SubFrom(a, b, i + 1, IF a[i] - Limb(b, i) - borrow < 0 THEN 1 ELSE 0,
                 Append(acc, (a[i] - Limb(b, i) - borrow + Base) % Base))
NatSub(a, b) == SubFrom(a, b, 1, 0, <<>>)

\* a * b for five-digit a and b
NatMul(a, b) ==
    Carry([k \in 1 .. 9 |->
             Limb(a, 1) * Limb(b, k) + Limb(a, 2) * Limb(b, k - 1)
             + Limb(a, 3) * Limb(b, k - 2) + Limb(a, 4) * Limb(b, k - 3)
             + Limb(a, 5) * Limb(b, k - 4)])

\* one digit of a long division by b (2^52 <= b < 2^53) for rem < b * 2^13:
\* the digit is estimated from the leading bits of rem and b, which never
\* overshoots and falls short by 2 at most, and then corrected
Estimate(rh, bh) ==
    (rh[1] + rh[2] * Base + rh[3] * Base * Base) \div (bh[1] + bh[2] * Base + 1)
Corrected(d, b) ==
    IF NatGeq(d.rem, b) THEN [digit |-> d.digit + 1, rem |-> NatSub(d.rem, b)]
    ELSE d
Estimated(est, rem, b) ==
    [digit |-> est, rem |-> NatSub(rem, Carry([j \in 1 .. 5 |-> est * b[j]]))]
DivDigit(rem, b) ==
    Corrected(Corrected(Estimated(Estimate(ShiftRight(rem, 36, 3),
                                           ShiftRight(b, 36, 2)),
                                  rem, b),
                        b),
              b)

\* a * 2^65 \div b for a < 2 * b, and whether it left a remainder: the
\* leading digit, then five more, most significant first
RECURSIVE DivFrom(_, _, _, _)
RECURSIVE DivNext(_, _, _, _)
DivFrom(rem, b, i, quo) ==
    IF i = 0 THEN [quo |-> quo, sticky |-> \E j \in 1 .. Len(rem) : rem[j] # 0]
    ELSE CHOOSE r \in {DivNext(d, b, i, quo) : d \in {DivDigit(<<0>> \o rem, b)}} : TRUE
DivNext(d, b, i, quo) ==
    DivFrom(SubSeq(d.rem, 1, 5), b, i - 1, <<d.digit>> \o quo)
NatDiv(a, b) ==
    IF NatGeq(a, b) THEN DivFrom(NatSub(a, b), b, 5, <<1>>)
    ELSE DivFrom(a, b, 5, <<0>>)

\* the double nearest to N * 2^e (ties to even); sticky tells that N leaves
\* out a non-zero fraction below its last bit
\* the d bits dropped from N are a half and the kept ones odd, or more than
\* a half
RoundsUp(N, d, sticky) ==
    /\ BitAt(N, d) = 1
    /\ \/ sticky
       \/ \E i \in 1 .. d - 1 : BitAt(N, i) = 1
       \/ BitAt(N, d + 1) = 1
\* the significand q (2^52 .. 2^53) with exponent ex
Normalized(q, ex) ==
    IF q[5] = 2
    THEN (IF ex + 1 > 971 THEN Inf
          ELSE [cls |-> "finite", m |-> <<0, 0, 0, 0, 1>>, e |-> ex + 1])
    ELSE (IF ex > 971 THEN Inf ELSE [cls |-> "finite", m |-> q, e |-> ex])
RoundAt(N, e, sticky, d) ==
    IF d <= 0
    THEN [cls |-> "finite", m |-> ShiftLeft(N, -d, 5), e |-> e + d]
    ELSE Normalized(IF RoundsUp(N, d, sticky)
                    THEN Carry([ShiftRight(N, d, 5) EXCEPT ![1] = @ + 1])
                    ELSE ShiftRight(N, d, 5),
                    e + d)
RoundToDouble(N, e, sticky) == RoundAt(N, e, sticky, BitLength(N) - 53)

\* float(k) for an int k >= 1, and 2.0 ** k
FromInt(k) ==
    RoundToDouble(<<k % Base, (k \div Base) % Base, k \div (Base * Base)>>,
                  0, FALSE)
Pow2(k) == [cls |-> "finite", m |-> <<0, 0, 0, 0, 1>>, e |-> k - 52]

\* x * y
FloatMul(x, y) ==
    IF x.cls = "nan" \/ y.cls = "nan" THEN NaN
    ELSE IF x.cls = "zero" \/ y.cls = "zero"
         THEN (IF x.cls = "inf" \/ y.cls = "inf" THEN NaN ELSE Zero)
    ELSE IF x.cls = "inf" \/ y.cls = "inf" THEN Inf
    ELSE RoundToDouble(NatMul(x.m, y.m), x.e + y.e, FALSE)

\* the double nearest to the quotient d (with its remainder flag) * 2^e
RoundedQuotient(d, e) == RoundToDouble(d.quo, e, d.sticky)

\* x / y, y not zero
FloatDiv(x, y) ==
    IF x.cls = "nan" \/ y.cls = "nan" THEN NaN
    ELSE IF x.cls = "inf" THEN (IF y.cls = "inf" THEN NaN ELSE Inf)
    ELSE IF x.cls = "zero" \/ y.cls = "inf" THEN Zero
    ELSE RoundedQuotient(NatDiv(x.m, y.m), x.e - y.e - 65)

\* x > y
FloatGt(x, y) ==
    IF x.cls = "nan" \/ y.cls = "nan" THEN FALSE
    ELSE IF x.cls = "inf" THEN y.cls # "inf"
    ELSE IF y.cls = "inf" \/ x.cls = "zero" THEN FALSE
    ELSE IF y.cls = "zero" THEN TRUE
    ELSE IF x.e # y.e THEN x.e > y.e
    ELSE x.m # y.m /\ NatGeq(x.m, y.m)

\* math.sin(math.pi / n) as a double
SinPiOverD(n) ==
    CASE n = 3 -> [cls |-> "finite", m |-> <<3242, 706, 7866, 5996, 1>>, e |-> -53]
      [] n = 4 -> [cls |-> "finite", m |-> <<7116, 5113, 1945, 3393, 1>>, e |-> -53]
      [] n = 5 -> [cls |-> "finite", m |-> <<6750, 938, 2241, 1438, 1>>, e |-> -53]
      [] n = 6 -> [cls |-> "finite", m |-> <<8191, 8191, 8191, 8191, 1>>, e |-> -54]
      [] n = 7 -> [cls |-> "finite", m |-> <<3009, 2957, 4115, 6025, 1>>, e |-> -54]
      [] n = 8 -> [cls |-> "finite", m |-> <<2403, 5493, 6313, 4347, 1>>, e |-> -54]
      [] n = 354505 -> [cls |-> "finite", m |-> <<2641, 5775, 3335, 1323, 1>>, e |-> -69]
      [] n = 354506 -> [cls |-> "finite", m |-> <<1386, 6725, 3115, 1323, 1>>, e |-> -69]
      [] n = 354507 -> [cls |-> "finite", m |-> <<1461, 7685, 2895, 1323, 1>>, e |-> -69]

\* math.cos(math.pi / n) as a double
CosPiOverD(n) ==
    CASE n = 3 -> [cls |-> "finite", m |-> <<1, 0, 0, 0, 1>>, e |-> -53]
      [] n = 4 -> [cls |-> "finite", m |-> <<7117, 5113, 1945, 3393, 1>>, e |-> -53]
      [] n = 5 -> [cls |-> "finite", m |-> <<5288, 7359, 7654, 5062, 1>>, e |-> -53]
      [] n = 6 -> [cls |-> "finite", m |-> <<3243, 706, 7866, 5996, 1>>, e |-> -53]
      [] n = 7 -> [cls |-> "finite", m |-> <<7281, 3674, 3882, 6569, 1>>, e |-> -53]
      [] n = 8 -> [cls |-> "finite", m |-> <<3398, 6548, 6899, 6944, 1>>, e |-> -53]
      [] n = 354505 -> [cls |-> "finite", m |-> <<6765, 8148, 8191, 8191, 1>>, e |-> -53]
      [] n = 354506 -> [cls |-> "finite", m |-> <<6767, 8148, 8191, 8191, 1>>, e |-> -53]
      [] n = 354507 -> [cls |-> "finite", m |-> <<6768, 8148, 8191, 8191, 1>>, e |-> -53]

\* the vertex counts the two tables cover
TableN == (MinVertices .. 8) \cup {354505, 354506, 354507}

\* 2 * self._R * math.sin(math.pi / self._n)
SideLengthD(n, R) == FloatMul(FloatMul(FromInt(2), R), SinPiOverD(n))
\* self._R * math.cos(math.pi / self._n)
ApothemD(n, R) == FloatMul(R, CosPiOverD(n))
\* self._n / 2 * self.side_length * self.apothem
AreaD(n, sl, ap) == FloatMul(FloatMul(FloatDiv(FromInt(n), FromInt(2)), sl), ap)
\* self._n * self.side_length
PerimeterD(n, sl) == FloatMul(FromInt(n), sl)

\* the cached properties of a Polygon whose circumradius is a double
\* (each is the look-up, then the body on the polygon whose counter has been
\* incremented, then the store of the body's value v under the name a)
Filled(s, a, v) == Result(Store(s, a, v), v)

SideLengthBody(s1) == Filled(s1, "side_length", SideLengthD(s1.n, s1.R))
GetSideLengthD(s) ==
    IF Cached(s, "side_length") THEN Result(s, s.dict["side_length"])
    ELSE SideLengthBody(Bump(s, "side_length"))

ApothemBody(s1) == Filled(s1, "apothem", ApothemD(s1.n, s1.R))
GetApothemD(s) ==
    IF Cached(s, "apothem") THEN Result(s, s.dict["apothem"])
    ELSE ApothemBody(Bump(s, "apothem"))

\* the body of area once self.side_length (sl), then self.apothem (ap) are read
AreaOfReads(sl, ap) == Filled(ap.s, "area", AreaD(ap.s.n, sl.v, ap.v))
AreaAfter(sl) == AreaOfReads(sl, GetApothemD(sl.s))
GetAreaD(s) ==
    IF Cached(s, "area") THEN Result(s, s.dict["area"])
    ELSE AreaAfter(GetSideLengthD(Bump(s, "area")))

\* the body of perimeter once self.side_length (sl) is read
PerimeterAfter(sl) == Filled(sl.s, "perimeter", PerimeterD(sl.s.n, sl.v))
GetPerimeterD(s) ==
    IF Cached(s, "perimeter") THEN Result(s, s.dict["perimeter"])
    ELSE PerimeterAfter(GetSideLengthD(Bump(s, "perimeter")))

\* lambda p: p.area / p.perimeter: the polygon after the two reads and the
\* ratio; p.area (a) is read first, then p.perimeter (pe)
RatioOfReads(a, pe) == Result(pe.s, FloatDiv(a.v, pe.v))
RatioAfter(a) == RatioOfReads(a, GetPerimeterD(a.s))
KeyOf(s) == RatioAfter(GetAreaD(s))

\* the ratio for a Polygon(n, R) no property of which has been read
Efficiency(n, R) == KeyOf(NewPolygon(n, R)).v

\* variant: 'side_length' is missing from the list of attributes to delete
InvalidateCacheWithoutSideLength(s) ==
    [s EXCEPT !.dict = [b \in (DOMAIN s.dict) \ (Attrs \ {"side_length"}) |-> s.dict[b]]]

\* variant: 'perimeter' is missing from the list of attributes to delete
InvalidateCacheWithoutPerimeter(s) ==
    [s EXCEPT !.dict = [b \in (DOMAIN s.dict) \ (Attrs \ {"perimeter"}) |-> s.dict[b]]]

\* variant: 'area' is missing from the list of attributes to delete
InvalidateCacheWithoutArea(s) ==
    [s EXCEPT !.dict = [b \in (DOMAIN s.dict) \ (Attrs \ {"area"}) |-> s.dict[b]]]

\* variant: invalidation also resets the counters
InvalidateCacheAndCounters(s) ==
    [s EXCEPT !.dict = [b \in (DOMAIN s.dict) \ Attrs |-> s.dict[b]],
              !.calls = [a \in Attrs |-> 0]]

\* Polygon._invalidate_cache: every listed attribute present in __dict__ is deleted
InvalidateCache(s) ==
    [s EXCEPT !.dict = [b \in (DOMAIN s.dict) \ Attrs |-> s.dict[b]]]

\* ---------------------------------------------------------- constructor
\* The outcome of a call that may raise: the exception's name ("None" when
\* the call returns) and the object as the call leaves it.
Outcome(raised, s) == [raised |-> raised, s |-> s]

\* variant: the check admits two vertices
PolygonInitFromTwo(n, R) ==
    IF n < MinVertices - 1 THEN Outcome("ValueError", NoPoly)
    ELSE Outcome("None", NewPolygon(n, R))

\* Polygon.__init__(n, R)
PolygonInit(n, R) ==
    IF n < MinVertices THEN Outcome("ValueError", NoPoly)
    ELSE Outcome("None", NewPolygon(n, R))

\* --------------------------------------------------------------- setters
\* variant: the assignment precedes the check
SetCountVerticesThenCheck(s, new_n) ==
    IF new_n < MinVertices THEN Outcome("ValueError", [s EXCEPT !.n = new_n])
    ELSE Outcome("None", InvalidateCache([s EXCEPT !.n = new_n]))

\* variant: the check admits two vertices
SetCountVerticesFromTwo(s, new_n) ==
    IF new_n < MinVertices - 1 THEN Outcome("ValueError", s)
    ELSE Outcome("None", InvalidateCache([s EXCEPT !.n = new_n]))

\* Polygon.count_vertices = new_n
SetCountVertices(s, new_n) ==
    IF new_n < MinVertices THEN Outcome("ValueError", s)
    ELSE Outcome("None", InvalidateCache([s EXCEPT !.n = new_n]))

\* variant: a set to the value already held returns without invalidating
SetCircumradiusIfChanged(s, new_R) ==
    IF new_R = s.R THEN Outcome("None", s)
    ELSE Outcome("None", InvalidateCache([s EXCEPT !.R = new_R]))

\* Polygon.circumradius = new_R
SetCircumradius(s, new_R) ==
    Outcome("None", InvalidateCache([s EXCEPT !.R = new_R]))

\* ------------------------------------------------- repr and comparisons
\* f'Polygon(n={self._n}, R={self._R})'
PolygonRepr(s) == <<"Polygon(n=", s.n, ", R=", s.R, ")">>

\* what a comparison may be handed: polygons, and values of other types
NotAPolygon == [kind |-> "int", n |-> 3, R |-> 1]
Operands == {NewPolygon(n, R) : n \in MinVertices .. MaxN, R \in RVals}
            \cup {NotAPolygon}

\* variant: a value of another type is simply unequal
PolygonEqFalseForOthers(s, other) ==
    IF other.kind = s.kind
    THEN IF s.n = other.n /\ s.R = other.R THEN "True" ELSE "False"
    ELSE "False"

\* variant: equality of the whole objects, cached values and counters included
PolygonEqWholeObject(s, other) ==
    IF other.kind = s.kind
    THEN IF s = other THEN "True" ELSE "False"
    ELSE "NotImplemented"

\* Polygon.__eq__(self, other)
PolygonEq(s, other) ==
    IF other.kind = s.kind
    THEN IF s.n = other.n /\ s.R = other.R THEN "True" ELSE "False"
    ELSE "NotImplemented"

\* variant: polygons of one vertex count are ordered by circumradius
PolygonGtThenRadius(s, other) ==
    IF other.kind = s.kind
    THEN IF s.n > other.n \/ (s.n = other.n /\ s.R > other.R)
         THEN "True" ELSE "False"
    ELSE "NotImplemented"

\* Polygon.__gt__(self, other)
PolygonGt(s, other) ==
    IF other.kind = s.kind
    THEN IF s.n > other.n THEN "True" ELSE "False"
    ELSE "NotImplemented"

\* a == b, a Polygon: a.__eq__(b) answers unless it returns NotImplemented;
\* then the reflected b.__eq__(a) of the other type is asked, which does not
\* know Polygon either, and the comparison falls back to identity (a is b)
Equal(a, b) ==
    IF PolygonEq(a, b) # "NotImplemented"
    THEN [raised |-> "None", val |-> <<PolygonEq(a, b)>>]
    ELSE [raised |-> "None", val |-> <<"False">>]

\* a > b, a Polygon: a.__gt__(b) answers unless it returns NotImplemented;
\* then the reflected b.__lt__(a) is asked, and when that does not answer
\* either the comparison raises TypeError
Greater(a, b) ==
    IF PolygonGt(a, b) # "NotImplemented"
    THEN [raised |-> "None", val |-> <<PolygonGt(a, b)>>]
    ELSE [raised |-> "TypeError", val |-> <<>>]

\* a < b, a Polygon: the class defines no __lt__, so the reflected
\* b.__gt__(a) answers when b is a Polygon; otherwise TypeError
Less(a, b) ==
    IF b.kind # a.kind THEN [raised |-> "TypeError", val |-> <<>>]
    ELSE IF PolygonGt(b, a) # "NotImplemented"
         THEN [raised |-> "None", val |-> <<PolygonGt(b, a)>>]
         ELSE [raised |-> "TypeError", val |-> <<>>]

\* ----------------------------------------------------------------- state
VARIABLES
    p,          \* the Polygon the caller holds, or NoPoly
    base,       \* the counters of p as they were when p was constructed or last
                \* mutated (the start of the current generation of its primitives)
    populated,  \* per cached property of p: the value returned by the read that
                \* populated it in the current generation
    q,          \* a second value the caller holds, to compare p with: a Polygon,
                \* a value of another type, or NoPoly
    ret,        \* the last call: its name, the exception it raised, the value returned
    seq,        \* the Polygons object, or NoSeq
    its,        \* the open PolygonIterator objects over seq
    yielded,    \* per iterator: the polygons its __next__ has returned so far
    stops,      \* per iterator: how often its __next__ has raised StopIteration,
                \* counted up to MaxStops
    threads,    \* per thread working on p: where it stands in the call it is
                \* making, and the values it holds
    lock,       \* the thread holding the lock of the cached_property, or 0
    locking,    \* whether cached_property takes a lock around the computation
                \* (functools before Python 3.12 does, later versions do not)
    overlapped  \* whether a call was ever begun while another was under way

vars == <<p, base, populated, q, ret, seq, its, yielded, stops,
         threads, lock, locking, overlapped>>
polyVars == <<p, base, populated>>
seqVars == <<seq, its, yielded, stops>>
raceVars == <<threads, lock, locking, overlapped>>

Call(op, raised, val) == [op |-> op, raised |-> raised, val |-> val]

IsPolygon(s) == s.kind = "Polygon"
ZeroCalls == [a \in Attrs |-> 0]

\* ------------------------------------------------------- Polygon actions
\* p = Polygon(n, R)   (the name keeps its old binding when the call raises)
Construct(n, R) ==
    /\ \E o \in {PolygonInit(n, R)} :
       /\ ret' = Call("Polygon", o.raised, <<>>)
       /\ IF o.raised = "None"
          THEN /\ p' = o.s
               /\ base' = o.s.calls
               /\ populated' = <<>>
          ELSE UNCHANGED polyVars
    /\ UNCHANGED <<q, raceVars, seqVars>>

\* p.count_vertices = new_n
SetN(new_n) ==
    /\ IsPolygon(p)
    /\ \E o \in {SetCountVertices(p, new_n)} :
       /\ ret' = Call("set_count_vertices", o.raised, <<>>)
       /\ p' = o.s
       /\ IF o.raised = "None"
          THEN base' = o.s.calls /\ populated' = <<>>
          ELSE UNCHANGED <<base, populated>>
    /\ UNCHANGED <<q, raceVars, seqVars>>

\* p.circumradius = new_R
SetR(new_R) ==
    /\ IsPolygon(p)
    /\ \E o \in {SetCircumradius(p, new_R)} :
       /\ ret' = Call("set_circumradius", o.raised, <<>>)
       /\ p' = o.s
       /\ base' = o.s.calls
       /\ populated' = <<>>
    /\ UNCHANGED <<q, raceVars, seqVars>>

\* the properties a read computed: their counters rose
ComputedBy(s, t) == {b \in Attrs : t.calls[b] > s.calls[b]}

\* _ = p.<a>   for a derived property a
Read(a) ==
    /\ IsPolygon(p)
    /\ \E r \in {Get(p, a)} :
       /\ \A b \in Attrs : r.s.calls[b] <= MaxCalls
       /\ ret' = Call(a, "None", <<r.v>>)
       /\ p' = r.s
       /\ \E new \in {ComputedBy(p, r.s)} :
            populated' = [b \in (DOMAIN populated) \cup new |->
                            IF b \in new
                            THEN (IF b = a THEN r.v ELSE r.s.dict[b])
                            ELSE populated[b]]
    /\ UNCHANGED <<base, q, raceVars, seqVars>>

\* repr(p)
Repr ==
    /\ IsPolygon(p)
    /\ ret' = Call("repr", "None", PolygonRepr(p))
    /\ UNCHANGED <<polyVars, q, raceVars, seqVars>>

\* p.__eq__(other)
Eq(other) ==
    /\ IsPolygon(p)
    /\ ret' = Call("__eq__", "None", <<PolygonEq(p, other)>>)
    /\ UNCHANGED <<polyVars, q, raceVars, seqVars>>

\* p.__gt__(other)
Gt(other) ==
    /\ IsPolygon(p)
    /\ ret' = Call("__gt__", "None", <<PolygonGt(p, other)>>)
    /\ UNCHANGED <<polyVars, q, raceVars, seqVars>>

\* ------------------------------------------- two values and the operators
\* q = Polygon(n, R), or q = 3
BindOther(o) ==
    /\ q' = o
    /\ ret' = Call("other", "None", <<>>)
    /\ UNCHANGED <<polyVars, raceVars, seqVars>>

\* q.<a>
ReadOther(a) ==
    /\ IsPolygon(q)
    /\ \E o \in {Get(q, a)} :
          /\ \A b \in Attrs : o.s.calls[b] <= MaxCalls
          /\ q' = o.s
          /\ ret' = Call("other_read", "None", <<o.v>>)
    /\ UNCHANGED <<polyVars, raceVars, seqVars>>

\* p == q
EqOp ==
    /\ IsPolygon(p) /\ q # NoPoly
    /\ \E r \in {Equal(p, q)} : ret' = Call("==", r.raised, r.val)
    /\ UNCHANGED <<polyVars, q, raceVars, seqVars>>

\* p > q
GtOp ==
    /\ IsPolygon(p) /\ q # NoPoly
    /\ \E r \in {Greater(p, q)} : ret' = Call(">", r.raised, r.val)
    /\ UNCHANGED <<polyVars, q, raceVars, seqVars>>

\* p < q
LtOp ==
    /\ IsPolygon(p) /\ q # NoPoly
    /\ \E r \in {Less(p, q)} : ret' = Call("<", r.raised, r.val)
    /\ UNCHANGED <<polyVars, q, raceVars, seqVars>>

\* ------------------------------------------------------------- Polygons
NoSeq == [kind |-> "None"]
NoIter == [kind |-> "None"]

\* variant: the check follows the error message ('m must be greater than 3')
PolygonsInitAboveThree(m, R) ==
    IF m <= MinVertices THEN Outcome("ValueError", NoSeq)
    ELSE Outcome("None", [kind |-> "Polygons", m |-> m, R |-> R])

\* Polygons.__init__(m, R)
PolygonsInit(m, R) ==
    IF m < MinVertices THEN Outcome("ValueError", NoSeq)
    ELSE Outcome("None", [kind |-> "Polygons", m |-> m, R |-> R])

\* Polygons.__len__
PolygonsLen(s) == s.m - 2

\* PolygonIterator.__init__(m, R), as Polygons.__iter__ calls it
PolygonIteratorInit(m, R) ==
    [kind |-> "PolygonIterator", m |-> m, R |-> R, index |-> FirstIndex]

\* Polygons.__iter__
PolygonsIter(s) == PolygonIteratorInit(s.m, s.R)

\* variant: the pass ends one polygon early (>= for >)
IteratorNextStopsAtM(it) ==
    IF it.index >= it.m
    THEN [raised |-> "StopIteration", s |-> it, polygon |-> NoPoly]
    ELSE [raised |-> "None",
          s |-> [it EXCEPT !.index = @ + 1],
          polygon |-> NewPolygon(it.index, it.R)]

\* variant: signalling the end rewinds the cursor
IteratorNextRestarting(it) ==
    IF it.index > it.m
    THEN [raised |-> "StopIteration",
          s |-> [it EXCEPT !.index = FirstIndex],
          polygon |-> NoPoly]
    ELSE [raised |-> "None",
          s |-> [it EXCEPT !.index = @ + 1],
          polygon |-> NewPolygon(it.index, it.R)]

\* PolygonIterator.__next__: the exception raised, the iterator afterwards and
\* the polygon returned
IteratorNext(it) ==
    IF it.index > it.m
    THEN [raised |-> "StopIteration", s |-> it, polygon |-> NoPoly]
    ELSE LET o == PolygonInit(it.index, it.R) IN
         IF o.raised # "None"
         THEN [raised |-> o.raised, s |-> it, polygon |-> NoPoly]
         ELSE [raised |-> "None",
               s |-> [it EXCEPT !.index = @ + 1],
               polygon |-> o.s]

IsIterator(it) == it.kind = "PolygonIterator"

\* list(it): __next__ is called until it raises; StopIteration ends the list,
\* any other exception leaves list() with that exception. acc holds the
\* polygons collected so far.
RECURSIVE Collect(_, _)
Collect(it, acc) ==
    LET o == IteratorNext(it) IN
    CASE o.raised = "StopIteration" -> [raised |-> "None", items |-> acc]
      [] o.raised = "None"          -> Collect(o.s, Append(acc, o.polygon))
      [] OTHER                      -> [raised |-> o.raised, items |-> <<>>]

ListOf(it) == Collect(it, <<>>)

\* variant: an element whose ratio equals the greatest so far replaces it
ReplacesOnTie(k, bestKey) == ~FloatGt(bestKey, k)

\* max(): val > maxval, the test under which an element replaces the
\* greatest so far
Replaces(k, bestKey) == FloatGt(k, bestKey)

\* max(it, key=...): next() is called until it raises StopIteration; the key
\* is evaluated on each polygon as it is yielded, and a polygon replaces the
\* greatest so far only when its key is greater. seen holds the polygons the
\* key was evaluated on, in order.
\* (MaxOver calls next(it), MaxNext takes its outcome o, MaxKeyed the key k
\* of the polygon it yielded.)
RECURSIVE MaxOver(_, _, _, _)
RECURSIVE MaxNext(_, _, _, _)
RECURSIVE MaxKeyed(_, _, _, _, _)
MaxOver(it, best, bestKey, seen) == MaxNext(IteratorNext(it), best, bestKey, seen)
MaxNext(o, best, bestKey, seen) ==
    CASE o.raised = "StopIteration" ->
            [raised |-> IF seen = <<>> THEN "ValueError" ELSE "None",
             val |-> best, seen |-> seen]
      [] o.raised = "None" ->
            CHOOSE r \in {MaxKeyed(o.s, k, best, bestKey, seen) :
                            k \in {KeyOf(o.polygon)}} : TRUE
      [] OTHER -> [raised |-> o.raised, val |-> NoPoly, seen |-> seen]
MaxKeyed(it, k, best, bestKey, seen) ==
    IF seen = <<>> \/ Replaces(k.v, bestKey)
    THEN MaxOver(it, k.s, k.v, Append(seen, k.s))
    ELSE MaxOver(it, best, bestKey, Append(seen, k.s))

\* Polygons.max_efficiency_polygon: max(self, key=lambda p: p.area/p.perimeter)
MaxEfficiencyPolygon(s) == MaxOver(PolygonsIter(s), NoPoly, NaN, <<>>)

\* it = iter(s), bound to the name i: a new PolygonIterator object; the other
\* iterator objects are not touched
Begin(all, i, s) == [all EXCEPT ![i] = PolygonsIter(s)]

\* variant: the cursor is one attribute of the class, shared by every iterator
AdvanceSharedCursor(all, i) ==
    [j \in DOMAIN all |->
        IF IsIterator(all[j])
        THEN [all[j] EXCEPT !.index = IteratorNext(all[i]).s.index]
        ELSE all[j]]

\* next(it_i): self._index is an attribute of the instance the call is made on
Advance(all, i) == [all EXCEPT ![i] = IteratorNext(all[i]).s]

\* ------------------------------------------------------ Polygons actions
\* seq = Polygons(m, R)
NewPolygons(m, R) ==
    /\ seq = NoSeq
    /\ \E o \in {PolygonsInit(m, R)} :
       /\ ret' = Call("Polygons", o.raised, <<>>)
       /\ seq' = o.s
    /\ UNCHANGED <<polyVars, q, raceVars, its, yielded, stops>>

\* len(seq)
Len_ ==
    /\ seq # NoSeq
    /\ ret' = Call("len", "None", <<PolygonsLen(seq)>>)
    /\ UNCHANGED <<polyVars, q, raceVars, seqVars>>

\* it_i = iter(seq): a new pass begins (a name bound to an older pass is rebound)
Iter(i) ==
    /\ seq # NoSeq
    /\ its' = Begin(its, i, seq)
    /\ yielded' = [yielded EXCEPT ![i] = <<>>]
    /\ stops' = [stops EXCEPT ![i] = 0]
    /\ ret' = Call("iter", "None", <<>>)
    /\ UNCHANGED <<polyVars, q, raceVars, seq>>

\* p = next(it_i)   (the name p keeps its old binding when the call raises)
IterNext(i) ==
    /\ IsIterator(its[i])
    /\ \E o \in {IteratorNext(its[i])} :
       /\ its' = Advance(its, i)
       /\ ret' = Call("next", o.raised, <<>>)
       /\ IF o.raised = "None"
          THEN /\ yielded' = [yielded EXCEPT ![i] = Append(@, o.polygon)]
               /\ p' = o.polygon
               /\ base' = o.polygon.calls
               /\ populated' = <<>>
          ELSE UNCHANGED <<yielded, polyVars>>
       /\ stops' = IF o.raised = "StopIteration" /\ stops[i] < MaxStops
                   THEN [stops EXCEPT ![i] = @ + 1]
                   ELSE stops
    /\ UNCHANGED <<q, raceVars, seq>>

\* for p in Polygons(m, R): the polygons one pass hands to the caller
PassOver(m, R) ==
    LET s == PolygonsInit(m, R) IN
    IF s.raised # "None" THEN {}
    ELSE UNION {IF l.raised # "None" THEN {} ELSE {l.items[k] : k \in DOMAIN l.items} :
                    l \in {ListOf(PolygonsIter(s.s))}}

\* p = list(Polygons(m, R))[k]: the caller takes one polygon of a pass over a
\* sequence and goes on to work with it
TakeFromSequence(m, R) ==
    /\ \E e \in PassOver(m, R) :
          /\ p' = e
          /\ base' = e.calls
          /\ populated' = <<>>
    /\ ret' = Call("list", "None", <<>>)
    /\ UNCHANGED <<q, raceVars, seqVars>>

\* ------------------------------------------------------------ efficiency
\* circumradii given as doubles: 1.0, 2.0 and 2.0 ** 600
Radii == {FromInt(1), FromInt(2), Pow2(600)}
\* vertex counts the key is evaluated for outside a pass
RatedN == (MinVertices .. MaxN) \cup {354505, 354506}

\* p = seq.max_efficiency_polygon
MaxEfficiency ==
    /\ seq # NoSeq
    /\ \E r \in {MaxEfficiencyPolygon(seq)} :
          /\ ret' = Call("max_efficiency_polygon", r.raised, <<>>)
          /\ IF r.raised = "None"
             THEN /\ p' = r.val
                  /\ base' = ZeroCalls
                  /\ populated' = r.val.dict
             ELSE UNCHANGED polyVars
    /\ UNCHANGED <<q, raceVars, seqVars>>

\* p = Polygon(n, R); p.area / p.perimeter
Rate(n, R) ==
    /\ \E k \in {KeyOf(NewPolygon(n, R))} :
          /\ p' = k.s
          /\ base' = ZeroCalls
          /\ populated' = k.s.dict
          /\ ret' = Call("key", "None", <<k.v>>)
    /\ UNCHANGED <<q, raceVars, seqVars>>

\* -------------------------------------------------- threads on one Polygon
\* The calls of several threads on p, one step of one thread at a time: a
\* first access p.side_length runs cached_property.__get__ (look-up, the lock
\* where there is one, look-up again) and then the body of side_length
\* (load and store of the counter, read of _R and _n) before the value is
\* stored in __dict__; p.circumradius = R assigns _R and then invalidates,
\* which is a test for the key and its deletion.  side_length is the only
\* derived property read here, so it is the only key __dict__ can hold.
Idle == [pc |-> "idle", cnt |-> 0, v |-> 0, arg |-> 0]
AllIdle == \A t \in Threads : threads[t].pc = "idle"
At(t, pc) == threads[t].pc = pc
Goto(t, pc) == threads' = [threads EXCEPT ![t].pc = pc]
Begun(t) == overlapped' = (overlapped \/ \E u \in Threads \ {t} : threads[u].pc # "idle")

\* thread t calls p.side_length
BeginRead(t) ==
    /\ At(t, "idle")
    /\ p.calls["side_length"] < MaxCalls
    /\ Goto(t, "lookup")
    /\ Begun(t)
    /\ UNCHANGED <<polyVars, q, ret, seqVars, lock, locking>>

\* val = cache.get(self.attrname, _NOT_FOUND); if val is _NOT_FOUND: ...
Lookup(t) ==
    /\ At(t, "lookup")
    /\ Goto(t, IF Cached(p, "side_length") THEN "idle"
               ELSE IF locking THEN "acquire" ELSE "load")
    /\ UNCHANGED <<polyVars, q, ret, seqVars, lock, locking, overlapped>>

\* with self.lock:
Acquire(t) ==
    /\ At(t, "acquire")
    /\ lock = 0
    /\ lock' = t
    /\ Goto(t, "recheck")
    /\ UNCHANGED <<polyVars, q, ret, seqVars, locking, overlapped>>

\* the look-up again, under the lock
Recheck(t) ==
    /\ At(t, "recheck")
    /\ IF Cached(p, "side_length")
       THEN Goto(t, "idle") /\ lock' = 0
       ELSE Goto(t, "load") /\ lock' = lock
    /\ UNCHANGED <<polyVars, q, ret, seqVars, locking, overlapped>>

\* self._side_length_calls += 1: the counter is loaded ...
LoadCounter(t) ==
    /\ At(t, "load")
    /\ threads' = [threads EXCEPT ![t].pc = "count",
                                  ![t].cnt = p.calls["side_length"]]
    /\ UNCHANGED <<polyVars, q, ret, seqVars, lock, locking, overlapped>>

\* ... and stored back, one greater
StoreCounter(t) ==
    /\ At(t, "count")
    /\ p' = [p EXCEPT !.calls["side_length"] = threads[t].cnt + 1]
    /\ Goto(t, "compute")
    /\ UNCHANGED <<base, populated, q, ret, seqVars, lock, locking, overlapped>>

\* 2 * self._R * math.sin(math.pi / self._n): the primitives are read
Compute(t) ==
    /\ At(t, "compute")
    /\ threads' = [threads EXCEPT ![t].pc = "fill",
                                  ![t].v = SideLengthOf(p.n, p.R)]
    /\ UNCHANGED <<polyVars, q, ret, seqVars, lock, locking, overlapped>>

\* cache[self.attrname] = val, and the lock is released
Fill(t) ==
    /\ At(t, "fill")
    /\ p' = Store(p, "side_length", threads[t].v)
    /\ lock' = IF lock = t THEN 0 ELSE lock
    /\ threads' = [threads EXCEPT ![t] = Idle]
    /\ UNCHANGED <<base, populated, q, ret, seqVars, locking, overlapped>>

\* thread t calls p.circumradius = new_R
BeginSet(t, new_R) ==
    /\ At(t, "idle")
    /\ threads' = [threads EXCEPT ![t].pc = "assign", ![t].arg = new_R]
    /\ Begun(t)
    /\ UNCHANGED <<polyVars, q, ret, seqVars, lock, locking>>

\* self._R = R: a new generation of the primitives begins
Assign(t) ==
    /\ At(t, "assign")
    /\ p' = [p EXCEPT !.R = threads[t].arg]
    /\ base' = p.calls
    /\ Goto(t, "invalidate")
    /\ UNCHANGED <<populated, q, ret, seqVars, lock, locking, overlapped>>

\* self._invalidate_cache(): if attr in self.__dict__ ...
Invalidate(t) ==
    /\ At(t, "invalidate")
    /\ IF Cached(p, "side_length")
       THEN Goto(t, "delete")
       ELSE threads' = [threads EXCEPT ![t] = Idle]
    /\ UNCHANGED <<polyVars, q, ret, seqVars, lock, locking, overlapped>>

\* ... del self.__dict__[attr], a KeyError when the key has gone meanwhile
Delete(t) ==
    /\ At(t, "delete")
    /\ IF Cached(p, "side_length")
       THEN p' = InvalidateCache(p) /\ ret' = ret
       ELSE p' = p /\ ret' = Call("circumradius", "KeyError", <<>>)
    /\ threads' = [threads EXCEPT ![t] = Idle]
    /\ UNCHANGED <<base, populated, q, seqVars, lock, locking, overlapped>>

\* -------------------------------------------------------- specifications
Init ==
    /\ p = NoPoly
    /\ base = ZeroCalls
    /\ populated = <<>>
    /\ q = NoPoly
    /\ ret = Call("start", "None", <<>>)
    /\ seq = NoSeq
    /\ its = [i \in IterIds |-> NoIter]
    /\ yielded = [i \in IterIds |-> <<>>]
    /\ stops = [i \in IterIds |-> 0]
    /\ threads = [t \in Threads |-> Idle]
    /\ lock = 0
    /\ locking = FALSE
    /\ overlapped = FALSE

\* a caller working with one Polygon at a time
Next ==
    \/ \E n \in NVals, R \in RVals : Construct(n, R)
    \/ \E m \in MVals, R \in RVals : TakeFromSequence(m, R)
    \/ \E n \in NVals : SetN(n)
    \/ \E R \in RVals : SetR(R)
    \/ \E a \in Attrs : Read(a)
    \/ Repr
    \/ \E o \in Operands : Eq(o)
    \/ \E o \in Operands : Gt(o)

\* a caller working with one Polygons object and iterators over it
SeqNext ==
    \/ \E m \in MVals, R \in RVals : NewPolygons(m, R)
    \/ Len_
    \/ \E i \in IterIds : Iter(i)
    \/ \E i \in IterIds : IterNext(i)

\* a caller comparing two values, the first a Polygon
CmpNext ==
    \/ \E n \in MinVertices .. MaxN, R \in RVals : Construct(n, R)
    \/ \E o \in Operands : BindOther(o)
    \/ \E a \in Attrs : Read(a)
    \/ \E a \in Attrs : ReadOther(a)
    \/ EqOp
    \/ GtOp
    \/ LtOp

\* a caller asking for the most efficient polygon of a sequence
EffNext ==
    \/ \E m \in MVals, R \in Radii : NewPolygons(m, R)
    \/ MaxEfficiency
    \/ \E n \in RatedN, R \in Radii : Rate(n, R)

\* threads sharing one Polygon(3, R), under either cached_property
RaceInit ==
    /\ \E R \in RVals : p = NewPolygon(MinVertices, R)
    /\ base = ZeroCalls
    /\ populated = <<>>
    /\ q = NoPoly
    /\ ret = Call("start", "None", <<>>)
    /\ seq = NoSeq
    /\ its = [i \in IterIds |-> NoIter]
    /\ yielded = [i \in IterIds |-> <<>>]
    /\ stops = [i \in IterIds |-> 0]
    /\ threads = [t \in Threads |-> Idle]
    /\ lock = 0
    /\ locking \in BOOLEAN
    /\ overlapped = FALSE

RaceNext ==
    \E t \in Threads :
        \/ BeginRead(t)
        \/ Lookup(t)
        \/ Acquire(t)
        \/ Recheck(t)
        \/ LoadCounter(t)
        \/ StoreCounter(t)
        \/ Compute(t)
        \/ Fill(t)
        \/ \E R \in RVals : BeginSet(t, R)
        \/ Assign(t)
        \/ Invalidate(t)
        \/ Delete(t)

Spec == Init /\ [][Next]_vars
CmpSpec == Init /\ [][CmpNext]_vars
EffSpec == Init /\ [][EffNext]_vars
RaceSpec == RaceInit /\ [][RaceNext]_vars
SeqSpec == Init /\ [][SeqNext]_vars

\* ================================================================ claims
\* the value each derived property has for given primitives, by the formulas
ValueOf(a, n, R) ==
    CASE a = "interior_angle" -> InteriorAngleOf(n)
      [] a = "side_length"    -> SideLengthOf(n, R)
      [] a = "apothem"        -> ApothemOf(n, R)
      [] a = "area"           -> AreaOf(n, SideLengthOf(n, R), ApothemOf(n, R))
      [] a = "perimeter"      -> PerimeterOf(n, SideLengthOf(n, R))

CachedSet(s) == (DOMAIN s.dict) \cap Attrs
Setters == {"set_count_vertices", "set_circumradius"}

\* C1: every derived property that is cached holds the value the formula gives
\* for the current vertex count and circumradius (no cached value is stale).
C1_CacheNeverStale ==
    IsPolygon(p) => \A a \in CachedSet(p) : p.dict[a] = ValueOf(a, p.n, p.R)

\* C1 witness: after a mutation, all five properties are cached again and area
\* has been computed a second time
C1_Witness ==
    /\ IsPolygon(p)
    /\ CachedSet(p) = Attrs
    /\ p.calls["area"] = 2
    /\ base["area"] = 1
    /\ p.n = 4 /\ p.R = 2

\* C2: a read of a derived property raises its own counter by 1 when the
\* property was not cached and by 0 when it was; a read of a cached property
\* returns the value returned by the read that populated it.
C2_ReadCountsOnce ==
    [][ret'.op \in Attrs =>
          \A a \in {ret'.op} : Read(a) =>
             IF Cached(p, a)
             THEN /\ p'.calls[a] = p.calls[a]
                  /\ a \in DOMAIN populated
                  /\ ret'.val = <<populated[a]>>
             ELSE /\ p'.calls[a] = p.calls[a] + 1
                  /\ Cached(p', a)
                  /\ ret'.val = <<p'.dict[a]>>]_vars

\* C2 witness: side_length was read while perimeter (and so side_length) was cached
C2_Witness ==
    /\ IsPolygon(p)
    /\ ret.op = "side_length"
    /\ Cached(p, "perimeter")
    /\ p.calls["side_length"] = 1
    /\ p.calls["perimeter"] = 1

\* what a successful set leaves behind
AfterSet ==
    /\ CachedSet(p') = {}
    /\ p'.calls = p.calls
    /\ \A a \in Attrs : \E r \in {Get(p', a)} :
          /\ r.s.calls[a] = p'.calls[a] + 1
          /\ r.v = ValueOf(a, p'.n, p'.R)

\* C3: every successful count_vertices set and every circumradius set (also to
\* the value already held) leaves all five properties uncached and the five
\* counters as they were; the next read of each property recomputes it and
\* raises its counter by exactly 1.
C3_SetInvalidates ==
    [][/\ ret'.op = "set_count_vertices" =>
             \A k \in NVals : (k >= MinVertices /\ SetN(k)) =>
                (ret'.raised = "None" /\ p'.n = k /\ AfterSet)
       /\ ret'.op = "set_circumradius" =>
             \A R \in RVals : SetR(R) =>
                (ret'.raised = "None" /\ p'.R = R /\ AfterSet)]_vars

\* C3 witness: a set was made on a polygon whose properties had all been computed
C3_Witness ==
    /\ IsPolygon(p)
    /\ ret.op \in Setters
    /\ ret.raised = "None"
    /\ CachedSet(p) = {}
    /\ \A a \in Attrs : p.calls[a] = 1

\* C4: setting count_vertices below 3 fails with an error and leaves the vertex
\* count, the circumradius, the cached properties with their values and the
\* five counters as they were.
C4_FailedSetKeepsState ==
    [][ret'.op = "set_count_vertices" =>
          \A k \in NVals : (k < MinVertices /\ SetN(k)) =>
             (ret'.raised = "ValueError" /\ p' = p)]_vars

\* C4 witness: the set failed on a polygon with cached values and counters
C4_Witness ==
    /\ IsPolygon(p)
    /\ ret.op = "set_count_vertices"
    /\ ret.raised = "ValueError"
    /\ CachedSet(p) = Attrs
    /\ p.calls["side_length"] = 2

\* C5: the vertex count of every Polygon instance, constructed directly or
\* yielded by a pass over a Polygons sequence, is at least 3 after any sequence
\* of setter calls and reads.
C5_AtLeastThreeVertices ==
    IsPolygon(p) => p.n >= 3

\* C5 witness: a polygon taken from a sequence, not the first one
C5_Witness ==
    /\ IsPolygon(p)
    /\ ret.op = "list"
    /\ p.n > 3

\* C6: Polygon(n, R) fails with an error for every n < 3 and creates no
\* instance; for n >= 3 it returns an instance holding n and R with no derived
\* property cached and the five counters at 0.
C6_Construction ==
    [][ret'.op = "Polygon" =>
          \A n \in NVals, R \in RVals : Construct(n, R) =>
             IF n < 3
             THEN /\ ret'.raised = "ValueError"
                  /\ ~IsPolygon(PolygonInit(n, R).s)
                  /\ p' = p
             ELSE /\ ret'.raised = "None"
                  /\ IsPolygon(p')
                  /\ p'.n = n /\ p'.R = R
                  /\ CachedSet(p') = {}
                  /\ \A a \in Attrs : p'.calls[a] = 0]_vars

\* C6 witness: Polygon(n, R) was refused while the caller held a polygon with
\* cached values, which it still holds
C6_Witness ==
    /\ ret.op = "Polygon"
    /\ ret.raised = "ValueError"
    /\ IsPolygon(p)
    /\ CachedSet(p) # {}

\* C7: between two successive successful mutations (or since construction)
\* each counter rises by at most 1, whatever reads are made: side_length and
\* apothem are computed once, not once per property that depends on them.
C7_OncePerGeneration ==
    IsPolygon(p) => \A a \in Attrs : p.calls[a] - base[a] <= 1

\* C7 witness: in a generation after a mutation all five have been computed,
\* and the last read was one of side_length while area and perimeter were cached
C7_Witness ==
    /\ IsPolygon(p)
    /\ CachedSet(p) = Attrs
    /\ \A a \in Attrs : base[a] = 1 /\ p.calls[a] = 2
    /\ ret.op = "side_length"

\* the step leaves the caller with the Polygon object it held before
SameObject ==
    /\ IsPolygon(p)
    /\ ~(ret'.op \in {"Polygon", "list", "next"} /\ ret'.raised = "None")

\* C8: over the lifetime of a Polygon no operation (read, successful or failed
\* set, comparison, repr) lowers one of its five counters.
C8_CountersMonotone ==
    [][SameObject => \A a \in Attrs : p'.calls[a] >= p.calls[a]]_vars

\* C8 witness: a set was made when every counter was above 1
C8_Witness ==
    /\ IsPolygon(p)
    /\ ret.op \in Setters
    /\ ret.raised = "None"
    /\ \A a \in Attrs : p.calls[a] = 2

\* ---------------------------------------------------------- sequences
\* the polygons of 3, 4, ..., last vertices with circumradius R
PolygonsUpTo(last, R) ==
    [k \in 1 .. (last - 2) |-> NewPolygon(k + 2, R)]

\* one step of __next__ on iterator i: while the cursor is at most m it returns
\* Polygon(cursor, R) and moves the cursor by 1, and otherwise it signals the
\* end, when the pass has returned len(seq) polygons
NextStep(i) ==
    IF its[i].index <= its[i].m
    THEN /\ ret'.raised = "None"
         /\ yielded'[i] = Append(yielded[i], NewPolygon(its[i].index, its[i].R))
         /\ its'[i].index = its[i].index + 1
    ELSE /\ ret'.raised = "StopIteration"
         /\ yielded'[i] = yielded[i]
         /\ its'[i] = its[i]
         /\ Len(yielded[i]) = PolygonsLen(seq)
         /\ yielded[i] = PolygonsUpTo(seq.m, seq.R)

\* C9: one pass over Polygons(m, R) yields the polygons of 3, 4, ..., m
\* vertices in ascending order, each once and with circumradius R, then signals
\* the end; it terminates, and yields len(Polygons(m, R)) = m - 2 polygons.
C9_OnePass ==
    /\ [](seq # NoSeq =>
            /\ ListOf(PolygonsIter(seq)) =
                   [raised |-> "None", items |-> PolygonsUpTo(seq.m, seq.R)]
            /\ Len(ListOf(PolygonsIter(seq)).items) = PolygonsLen(seq)
            /\ PolygonsLen(seq) = seq.m - 2)
    /\ [][\A i \in IterIds : (ret'.op = "next" /\ IterNext(i)) => NextStep(i)]_vars

\* C9 witness: a pass over the longest sequence has signalled its end
C9_Witness ==
    /\ ret.op = "next"
    /\ ret.raised = "StopIteration"
    /\ seq # NoSeq
    /\ seq.m = MaxM
    /\ \E i \in IterIds : /\ IsIterator(its[i])
                          /\ its[i].index = seq.m + 1
                          /\ Len(yielded[i]) = MaxM - 2

\* the other iterators are as they were
OthersUntouched(i) ==
    \A j \in IterIds \ {i} : its'[j] = its[j] /\ yielded'[j] = yielded[j]

\* C10: passes over one Polygons object are independent: each begins with its
\* own cursor at 3, and under any interleaving of next() steps every iterator
\* yields 3, 4, ... in order up to m, unaffected by the others.
C10_IndependentPasses ==
    /\ [](\A i \in IterIds : IsIterator(its[i]) =>
            /\ its[i].m = seq.m /\ its[i].R = seq.R
            /\ its[i].index \in FirstIndex .. seq.m + 1
            /\ yielded[i] = PolygonsUpTo(its[i].index - 1, seq.R))
    /\ [][\A i \in IterIds :
            /\ (ret'.op = "iter" /\ Iter(i)) =>
                  (its'[i].index = FirstIndex /\ OthersUntouched(i) /\ seq' = seq)
            /\ (ret'.op = "next" /\ IterNext(i)) =>
                  (OthersUntouched(i) /\ seq' = seq)]_vars

\* C10 witness: one pass has run to its end while another, begun over the same
\* object, has yielded one polygon
C10_Witness ==
    /\ seq # NoSeq
    /\ seq.m = MaxM
    /\ \E i, j \in IterIds :
          /\ IsIterator(its[i]) /\ IsIterator(its[j])
          /\ its[i].index = seq.m + 1
          /\ Len(yielded[i]) = MaxM - 2
          /\ its[j].index = FirstIndex + 1
          /\ Len(yielded[j]) = 1

\* C11: Polygons(m, R) fails with an error exactly when m < 3; m = 3 is accepted
\* and gives a sequence of length 1 whose only element is the triangle, so
\* every sequence that was constructed is non-empty.
C11_SequenceConstruction ==
    /\ [](seq # NoSeq =>
            /\ PolygonsLen(seq) >= 1
            /\ Len(ListOf(PolygonsIter(seq)).items) >= 1)
    /\ [][ret'.op = "Polygons" =>
            \A m \in MVals, R \in RVals : NewPolygons(m, R) =>
               IF m < 3
               THEN ret'.raised = "ValueError" /\ seq' = NoSeq
               ELSE /\ ret'.raised = "None"
                    /\ seq'.m = m /\ seq'.R = R
                    /\ (m = 3 =>
                          /\ PolygonsLen(seq') = 1
                          /\ ListOf(PolygonsIter(seq')).items = <<NewPolygon(3, R)>>)]_vars

\* C11 witness: Polygons(3, R) was constructed
C11_Witness ==
    /\ ret.op = "Polygons"
    /\ ret.raised = "None"
    /\ seq # NoSeq
    /\ seq.m = 3

\* C12: p == q is True exactly when the two polygons have the same vertex count
\* and the same circumradius; what either has cached and what its counters read
\* does not enter, so no read of a derived property on either changes the answer.
C12_Equality ==
    /\ [](ret.op = "==" /\ IsPolygon(q) =>
            /\ ret.raised = "None"
            /\ ret.val = <<IF p.n = q.n /\ p.R = q.R THEN "True" ELSE "False">>)
    /\ [][ret'.op \in Attrs \cup {"other_read"} /\ IsPolygon(p) /\ IsPolygon(q) =>
            Equal(p', q') = Equal(p, q)]_vars
C12_Witness ==
    /\ ret.op = "==" /\ IsPolygon(q) /\ ret.val = <<"True">>
    /\ CachedSet(p) # CachedSet(q)
    /\ p.calls # q.calls

\* C13: p > q is True exactly when p has strictly more vertices than q, and
\* p < q exactly when it has strictly fewer, whatever the two circumradii are;
\* polygons of one vertex count are neither greater nor less than each other.
C13_Ordering ==
    /\ (ret.op = ">" /\ IsPolygon(q) =>
          /\ ret.raised = "None"
          /\ ret.val = <<IF p.n > q.n THEN "True" ELSE "False">>)
    /\ (ret.op = "<" /\ IsPolygon(q) =>
          /\ ret.raised = "None"
          /\ ret.val = <<IF p.n < q.n THEN "True" ELSE "False">>)
    /\ (ret.op \in {">", "<"} /\ IsPolygon(q) /\ p.n = q.n => ret.val = <<"False">>)
C13_Witness ==
    /\ ret.op = "<" /\ IsPolygon(q) /\ ret.val = <<"True">>
    /\ p.R > q.R

\* C14: handed a value that is not a Polygon, __eq__ and __gt__ answer with
\* NotImplemented ('not comparable') and neither True nor False, and the call
\* leaves the Polygon as it was.
C14_NotComparable ==
    /\ [](IsPolygon(p) =>
            /\ PolygonEq(p, NotAPolygon) = "NotImplemented"
            /\ PolygonGt(p, NotAPolygon) = "NotImplemented")
    /\ [][ret'.op \in {"__eq__", "__gt__"} =>
            /\ (Eq(NotAPolygon) \/ Gt(NotAPolygon) => ret'.val = <<"NotImplemented">>)
            /\ ret'.raised = "None"
            /\ p' = p]_vars
C14_Witness ==
    /\ ret.op = "__eq__" /\ ret.val = <<"NotImplemented">>
    /\ CachedSet(p) # {}

\* area / perimeter of a polygon that has both cached
RatioOf(s) == FloatDiv(s.dict["area"], s.dict["perimeter"])

\* C15: max_efficiency_polygon makes one full pass over the sequence and
\* evaluates area / perimeter once on each polygon of it, from 3 up to m; the
\* polygon it returns has a ratio that no other exceeds, and every polygon
\* before it has a strictly smaller ratio (of several with the greatest ratio
\* the one with the fewest vertices is returned).
C15_MaxEfficiency ==
    [][ret'.op = "max_efficiency_polygon" =>
         \E r \in {MaxEfficiencyPolygon(seq)} :
            /\ ret'.raised = "None" /\ r.raised = "None"
            /\ Len(r.seen) = seq.m - 2
            /\ \A i \in 1 .. Len(r.seen) :
                  /\ r.seen[i].n = i + 2
                  /\ r.seen[i].R = seq.R
                  /\ r.seen[i].calls["area"] = 1
                  /\ r.seen[i].calls["perimeter"] = 1
            /\ \E b \in 1 .. Len(r.seen) :
                  /\ p' = r.seen[b]
                  /\ \A i \in 1 .. Len(r.seen) :
                        /\ ~FloatGt(RatioOf(r.seen[i]), RatioOf(p'))
                        /\ (i < b => FloatGt(RatioOf(p'), RatioOf(r.seen[i])))]_vars
C15_Witness ==
    /\ ret.op = "max_efficiency_polygon" /\ ret.raised = "None"
    /\ seq.m > MinVertices
    /\ p.n < seq.m
    /\ RatioOf(p) = Efficiency(seq.m, seq.R)

\* C16: for every m >= 3 and every R > 0 max_efficiency_polygon returns the
\* polygon of m vertices, because the ratio area / perimeter as computed
\* increases strictly with the vertex count for a fixed R.
C16_LargestIsMostEfficient ==
    /\ (ret.op = "max_efficiency_polygon" /\ ret.raised = "None" => p.n = seq.m)
    /\ (ret.op = "key" /\ p.n + 1 \in TableN =>
            FloatGt(Efficiency(p.n + 1, p.R), ret.val[1]))

\* the cached slot of a property: empty, or the value it holds
SlotOf(s, a) == IF Cached(s, a) THEN <<s.dict[a]>> ELSE <<>>
\* the properties a read of a may populate and count: a itself and those it reads
MayTouch(a) ==
    CASE a = "area"      -> {"area", "side_length", "apothem"}
      [] a = "perimeter" -> {"perimeter", "side_length"}
      [] OTHER           -> {a}

\* C17: a read of a derived property leaves the vertex count and the
\* circumradius as they were, and changes the cached slot and the counter of
\* no property but the one read and those it depends on (side_length for
\* perimeter, side_length and apothem for area); interior_angle is touched by
\* its own read only.
C17_ReadFrame ==
    [][ret'.op \in Attrs =>
         /\ p'.kind = p.kind /\ p'.n = p.n /\ p'.R = p.R
         /\ \A b \in Attrs \ MayTouch(ret'.op) :
               /\ SlotOf(p', b) = SlotOf(p, b)
               /\ p'.calls[b] = p.calls[b]
         /\ (ret'.op # "interior_angle" =>
               /\ SlotOf(p', "interior_angle") = SlotOf(p, "interior_angle")
               /\ p'.calls["interior_angle"] = p.calls["interior_angle"])]_vars
C17_Witness ==
    /\ ret.op = "area"
    /\ CachedSet(p) = {"area", "side_length", "apothem"}
    /\ p.calls = [a \in Attrs |-> IF a \in {"area", "side_length", "apothem"} THEN 1 ELSE 0]

\* C18: the cache is closed under dependencies: a cached area comes with a
\* cached side_length and a cached apothem and equals (n / 2) * side_length *
\* apothem of the cached values; a cached perimeter comes with a cached
\* side_length and equals n * side_length of the cached value.
C18_CacheClosed ==
    IsPolygon(p) =>
        /\ (Cached(p, "area") =>
              /\ Cached(p, "side_length") /\ Cached(p, "apothem")
              /\ p.dict["area"] = AreaOf(p.n, p.dict["side_length"], p.dict["apothem"]))
        /\ (Cached(p, "perimeter") =>
              /\ Cached(p, "side_length")
              /\ p.dict["perimeter"] = PerimeterOf(p.n, p.dict["side_length"]))
C18_Witness ==
    /\ IsPolygon(p)
    /\ {"area", "perimeter"} \subseteq CachedSet(p)
    /\ base # ZeroCalls

\* C19: once an iterator has signalled the end of iteration, every later
\* next() on it signals the end again, yields no polygon and leaves the cursor
\* at m + 1; the cursor of an iterator never decreases and never exceeds m + 1.
C19_EndIsFinal ==
    /\ [](\A i \in IterIds : IsIterator(its[i]) =>
            /\ its[i].index \in FirstIndex .. its[i].m + 1
            /\ (stops[i] > 0 => its[i].index = its[i].m + 1))
    /\ [][\A i \in IterIds :
            /\ (ret'.op = "next" /\ IterNext(i) /\ stops[i] > 0) =>
                  /\ ret'.raised = "StopIteration"
                  /\ its'[i] = its[i]
                  /\ yielded'[i] = yielded[i]
                  /\ p' = p
            /\ (IsIterator(its[i]) /\ ret'.op # "iter") =>
                  its'[i].index >= its[i].index]_vars
C19_Witness ==
    /\ ret.op = "next" /\ ret.raised = "StopIteration"
    /\ \E i \in IterIds :
          /\ stops[i] = MaxStops
          /\ its[i].index = seq.m + 1
          /\ Len(yielded[i]) = seq.m - 2

\* the counter of side_length has risen more than once since _R was last assigned
DoubleCount == p.calls["side_length"] - base["side_length"] >= 2
\* no call is under way and the cached side_length is not that of _n and _R
StaleCached ==
    /\ AllIdle
    /\ Cached(p, "side_length")
    /\ p.dict["side_length"] # SideLengthOf(p.n, p.R)

\* C20: access to one Polygon must be serialized: as long as no call is begun
\* while another is under way, the counter rises at most once in a generation
\* and no stale value stays cached; when the steps of a first access interleave
\* with another first access or with a setter, a double count and a stale
\* cached value are reachable.
C20_RaceNeedsOverlap ==
    (DoubleCount \/ StaleCached) => overlapped
C20_Witness ==
    /\ StaleCached
    /\ overlapped
====
